---- MODULE Spec2Model ----
(***************************************************************************)
(* Model of auth-backend/main.py: an OAuth gateway that exchanges GitHub   *)
(* and Google authorization codes for the service's own HS256 session      *)
(* tokens, refreshes them and answers "who am I" from an access token.     *)
(*                                                                         *)
(* The server keeps no state between requests.  The model's state is the   *)
(* clock, the tokens the server has handed out (held by clients), and one  *)
(* record per request being handled; every `await` of a handler is a       *)
(* scheduling point and therefore an action boundary.                      *)
(***************************************************************************)
EXTENDS Integers, Sequences, FiniteSets, TLC

VARIABLES now, ticks, issued, req

vars == <<now, ticks, issued, req>>

(***************************************************************************)
(* Bounds of the model.                                                    *)
(***************************************************************************)
MaxTicks == 2
MaxPairs == 3
MaxLogins == 1
MaxVerifierLen == 2

\* The requests of Spec, which handles one request at a time.
Reqs == {1}

(***************************************************************************)
(* Python values.  A value is tagged with its type, so that str(), `or`,   *)
(* truthiness and dict.get() can be computed the way Python computes them. *)
(***************************************************************************)
None == [none |-> TRUE]
S(x) == [s |-> x]
I(n) == [i |-> n]

IsInt(v) == "i" \in DOMAIN v
IsStr(v) == "s" \in DOMAIN v

\* A compact token (see jwt_encode) is a str too, and never empty.
IsToken(v) == "alg" \in DOMAIN v

\* bool(v)
Truthy(v) ==
    IF IsStr(v) THEN v.s # ""
    ELSE IF IsInt(v) THEN v.i # 0
    ELSE IsToken(v)

\* a or b
Or(a, b) == IF Truthy(a) THEN a ELSE b

\* str(v)
str(v) ==
    IF IsStr(v) THEN v
    ELSE IF IsInt(v) THEN S(ToString(v.i))
    ELSE S("None")

\* d.get(k) and d.get(k, default)
Get(d, k) == IF k \in DOMAIN d THEN d[k] ELSE None
GetOr(d, k, default) == IF k \in DOMAIN d THEN d[k] ELSE default

\* The outcome of a call: a returned value or a raised exception.
Return(v) == [ok |-> TRUE, val |-> v]
Raise(e) == [ok |-> FALSE, exc |-> e]

HTTPException(status_code, detail) ==
    [type |-> "HTTPException", status_code |-> status_code, detail |-> detail]
JWTError(msg) == [type |-> "JWTError", msg |-> msg]
KeyError(key) == [type |-> "KeyError", msg |-> "'" \o key \o "'"]
AttributeError(msg) == [type |-> "AttributeError", msg |-> msg]

\* str(e) of an exception: Starlette renders an HTTPException as
\* "<status_code>: <detail>"; the others render their message.
ExcStr(e) ==
    IF e.type = "HTTPException"
    THEN ToString(e.status_code) \o ": " \o e.detail
    ELSE e.msg

\* What the framework sends for an exception that leaves a handler.
ErrorResponse(e) ==
    IF e.type = "HTTPException"
    THEN [status |-> e.status_code, body |-> [detail |-> e.detail]]
    ELSE [status |-> 500, body |-> [detail |-> "Internal Server Error"]]

OkResponse(body) == [status |-> 200, body |-> body]

(***************************************************************************)
(* Configuration read from the environment at startup.                     *)
(***************************************************************************)
JWT_SECRET == "JWT_SECRET"
GOOGLE_CLIENT_ID == "GOOGLE_CLIENT_ID"
GOOGLE_ISSUER == "https://accounts.google.com"

\* timedelta(hours=1) and timedelta(days=7), in seconds
ACCESS_TTL == 3600
REFRESH_TTL == 604800

(***************************************************************************)
(* jose.jwt.  A compact token is modelled by what verification reads: the  *)
(* algorithm of its header, the key that signed it and its claims.         *)
(***************************************************************************)
jwt_encode(claims, key, algorithm) ==
    [alg |-> algorithm, key |-> key, claims |-> claims]

\* the hash of an access token that an ID token's at_hash claim carries
calculate_at_hash(access_token) == S("at_hash(" \o access_token.s \o ")")

\* at_hash validation of jose: skipped when the claim is absent
AtHashError(claims, access_token) ==
    IF "at_hash" \notin DOMAIN claims THEN ""
    ELSE IF ~Truthy(access_token)
         THEN "No access_token provided to compare against at_hash claim."
    ELSE IF claims["at_hash"] # calculate_at_hash(access_token)
         THEN "at_hash value does not match."
    ELSE ""

\* exp validation of jose: a token is still good in the second it expires
expired_Never(claims, t) == FALSE

expired(claims, t) == "exp" \in DOMAIN claims /\ claims["exp"].i < t

\* jwt.decode(token, key, algorithms, audience, issuer, access_token) at time t
jwt_decode(token, key, algorithms, audience, issuer, access_token, t) ==
    LET c == token.claims IN
    IF token.alg \notin algorithms
    THEN Raise(JWTError("The specified alg value is not allowed"))
    ELSE IF token.key # key
    THEN Raise(JWTError("Signature verification failed."))
    ELSE IF expired(c, t)
    THEN Raise(JWTError("Signature has expired."))
    ELSE IF "aud" \in DOMAIN c /\ c["aud"] # audience
    THEN Raise(JWTError("Invalid audience"))
    ELSE IF issuer # None /\ Get(c, "iss") # issuer
    THEN Raise(JWTError("Invalid issuer"))
    ELSE IF "sub" \in DOMAIN c /\ ~IsStr(c["sub"])
    THEN Raise(JWTError("Subject must be a string."))
    ELSE IF AtHashError(c, access_token) # ""
    THEN Raise(JWTError(AtHashError(c, access_token)))
    ELSE Return(c)

(***************************************************************************)
(* create_tokens                                                           *)
(***************************************************************************)
access_payload_RawSub(user_data, t) ==
    [sub |-> user_data["id"],
     username |-> user_data["login"],
     name |-> Or(Get(user_data, "name"), user_data["login"]),
     email |-> Get(user_data, "email"),
     avatar |-> Get(user_data, "avatar_url"),
     exp |-> I(t + ACCESS_TTL)]

access_payload(user_data, t) ==
    [sub |-> str(user_data["id"]),
     username |-> user_data["login"],
     name |-> Or(Get(user_data, "name"), user_data["login"]),
     email |-> Get(user_data, "email"),
     avatar |-> Get(user_data, "avatar_url"),
     exp |-> I(t + ACCESS_TTL)]

refresh_payload_WithProfile(user_data, t) ==
    [sub |-> str(user_data["id"]),
     username |-> user_data["login"],
     type |-> S("refresh"),
     exp |-> I(t + REFRESH_TTL)]

refresh_payload(user_data, t) ==
    [sub |-> str(user_data["id"]),
     type |-> S("refresh"),
     exp |-> I(t + REFRESH_TTL)]

create_tokens(user_data, t) ==
    [access_token |-> jwt_encode(access_payload(user_data, t), JWT_SECRET, "HS256"),
     refresh_token |-> jwt_encode(refresh_payload(user_data, t), JWT_SECRET, "HS256")]

(***************************************************************************)
(* Requests.  A slot is idle, inside a handler (pc names the await it is   *)
(* suspended at) or done, holding the response until it is sent.           *)
(*   calls  : the outbound calls the request has made, in order            *)
(*   replies: the status codes those calls were answered with, in order    *)
(*   trace  : the stages of the Google flow the request has passed         *)
(*   tokens : the pair the request has issued, or None                     *)
(* issued records every call of create_tokens that reached a client: the   *)
(* user_data it was given, the time, the pair it returned, the identity    *)
(* summary sent along with it (authenticate) and the refresh token it was  *)
(* obtained with (refresh).                                                *)
(***************************************************************************)
Idle ==
    [op |-> "idle", pc |-> "idle", input |-> None, local |-> None,
     calls |-> <<>>, replies |-> <<>>, trace |-> <<>>, tokens |-> None,
     resp |-> None]

Init ==
    /\ now = 0
    /\ ticks = 0
    /\ issued = {}
    /\ req = [r \in Reqs |-> Idle]

\* A handler that may issue tokens is admitted while the model has room.
Room == Cardinality(issued) < MaxPairs

\* An authentication is admitted while fewer than MaxLogins have succeeded.
LoginRoom == Cardinality({g \in issued : g.parent = None}) < MaxLogins

\* Tokens a client can present: the issued ones, and tampered copies whose
\* signature no longer matches.
Tamper(tok) == [tok EXCEPT !.key = "tampered"]
Held == UNION {{g.tokens.access_token, g.tokens.refresh_token} : g \in issued}
Presentable == Held \cup {Tamper(tok) : tok \in Held}

\* The handler of request r returns or raises: rec is the request as the
\* handler leaves it, res its outcome (Return(body) or Raise(exception)) and
\* user_data what it has called create_tokens with on the way, or None.
Finish(r, rec, res, user_data) ==
    LET pair == IF res.ok /\ "access_token" \in DOMAIN res.val
                THEN [access_token |-> res.val.access_token,
                      refresh_token |-> res.val.refresh_token]
                ELSE None
    IN
    /\ req' = [req EXCEPT ![r] =
                 [rec EXCEPT !.pc = "done", !.tokens = pair,
                             !.resp = IF res.ok THEN OkResponse(res.val)
                                      ELSE ErrorResponse(res.exc)]]
    /\ issued' = IF pair = None THEN issued
                 ELSE issued \cup
                      {[user_data |-> user_data, at |-> now, tokens |-> pair,
                        user |-> Get(res.val, "user"),
                        parent |-> IF rec.op = "refresh" THEN rec.input ELSE None]}

Start(op, input) == [Idle EXCEPT !.op = op, !.input = input]

(***************************************************************************)
(* POST /auth/github                                                       *)
(***************************************************************************)
\* What GitHub may answer.  The token endpoint answers 200 with an error
\* body, and no access_token, for a code it rejects.
GitHubTokenReplies ==
    {[status_code |-> 200, json |-> [access_token |-> S("gh_tok")]],
     [status_code |-> 200, json |-> [error |-> S("bad_verification_code")]],
     [status_code |-> 502, json |-> None]}

GitHubProfiles ==
    {[id |-> I(42), login |-> S("octo"), name |-> None, email |-> None,
      avatar_url |-> S("https://avatars.example/42")],
     [id |-> I(7), login |-> S("mona"), name |-> S("Mona Lisa"),
      email |-> S("mona@public.example"),
      avatar_url |-> S("https://avatars.example/7")]}

GitHubUserReplies(github_token) ==
    IF github_token = S("gh_tok")
    THEN {[status_code |-> 200, json |-> p] : p \in GitHubProfiles}
         \cup {[status_code |-> 503, json |-> None]}
    ELSE {[status_code |-> 401, json |-> None]}

GitHubEmailLists ==
    {<<>>,
     <<[email |-> S("second@example.com"), primary |-> FALSE]>>,
     <<[email |-> S("second@example.com"), primary |-> FALSE],
       [email |-> S("octo@example.com"), primary |-> TRUE]>>}

GitHubEmailReplies ==
    {[status_code |-> 200, json |-> l] : l \in GitHubEmailLists}
    \cup {[status_code |-> 403, json |-> None]}

primary_email_First(emails) ==
    IF emails = <<>> THEN None ELSE Head(emails).email

\* next((e["email"] for e in emails if e["primary"]), None)
RECURSIVE primary_email(_)
primary_email(emails) ==
    IF emails = <<>> THEN None
    ELSE IF Head(emails).primary THEN Head(emails).email
    ELSE primary_email(Tail(emails))

\* `if not user_data.get("email")`
needs_email(user_data) == ~Truthy(Get(user_data, "email"))

\* user_data after the email-list response has been looked at
with_primary_email(user_data, email_response) ==
    IF email_response.status_code = 200
       /\ Truthy(primary_email(email_response.json))
    THEN [user_data EXCEPT !["email"] = primary_email(email_response.json)]
    ELSE user_data

github_user(user_data) ==
    [id |-> user_data["id"],
     username |-> user_data["login"],
     name |-> Or(Get(user_data, "name"), user_data["login"]),
     email |-> Get(user_data, "email"),
     avatar |-> Get(user_data, "avatar_url")]

\* lines 149-160: issue the tokens and build the response
\* a handler that keeps the profile in a variable shared by all requests:
\* it answers with the profile another request in flight has fetched last
github_finish_Shared(r, rec, user_data) ==
    LET others == {q \in DOMAIN req \ {r} :
                      /\ req[q].op = "github" /\ req[q].pc # "done"
                      /\ req[q].local.user_response # None
                      /\ req[q].local.user_response.status_code = 200}
        shared == IF others = {} THEN user_data
                  ELSE req[CHOOSE q \in others : TRUE].local.user_response.json
        tokens == create_tokens(shared, now)
    IN
    Finish(r, [rec EXCEPT !.local = [@ EXCEPT !.user_data = shared]],
           Return([user |-> github_user(shared),
                   access_token |-> tokens.access_token,
                   refresh_token |-> tokens.refresh_token]),
           shared)

github_finish(r, rec, user_data) ==
    LET tokens == create_tokens(user_data, now) IN
    Finish(r, [rec EXCEPT !.local = [@ EXCEPT !.user_data = user_data]],
           Return([user |-> github_user(user_data),
                   access_token |-> tokens.access_token,
                   refresh_token |-> tokens.refresh_token]),
           user_data)

\* the handler up to its first await: the token exchange is sent
github_auth(r) ==
    /\ req[r].op = "idle"
    /\ Room /\ LoginRoom
    /\ req' = [req EXCEPT ![r] =
                 [Start("github", [code |-> S("abc123")]) EXCEPT
                     !.pc = "gh_token",
                     !.local = [github_token |-> None, user_response |-> None,
                                email_response |-> None, user_data |-> None],
                     !.calls = <<"github:access_token">>]]
    /\ UNCHANGED <<now, ticks, issued>>

\* a handler that sends the exchange a second time when it is refused
github_token_response_Retry(r) ==
    /\ req[r].pc = "gh_token"
    /\ \E token_response \in GitHubTokenReplies :
         LET rec == [req[r] EXCEPT !.replies = Append(@, token_response.status_code)]
         IN
         IF token_response.status_code # 200 /\ Len(req[r].calls) < 2
         THEN /\ req' = [req EXCEPT ![r] =
                   [rec EXCEPT !.calls = Append(@, "github:access_token")]]
              /\ UNCHANGED issued
         ELSE IF token_response.status_code # 200
         THEN Finish(r, rec,
                     Raise(HTTPException(400, "Failed to get access token")), None)
         ELSE /\ req' = [req EXCEPT ![r] =
                   [rec EXCEPT !.pc = "gh_user",
                               !.local = [@ EXCEPT !.github_token =
                                            Get(token_response.json, "access_token")],
                               !.calls = Append(@, "github:user")]]
              /\ UNCHANGED issued
    /\ UNCHANGED <<now, ticks>>

\* lines 121-131: the exchange has answered
github_token_response(r) ==
    /\ req[r].pc = "gh_token"
    /\ \E token_response \in GitHubTokenReplies :
         LET rec == [req[r] EXCEPT !.replies = Append(@, token_response.status_code)]
         IN
         IF token_response.status_code # 200
         THEN Finish(r, rec,
                     Raise(HTTPException(400, "Failed to get access token")), None)
         ELSE /\ req' = [req EXCEPT ![r] =
                   [rec EXCEPT !.pc = "gh_user",
                               !.local = [@ EXCEPT !.github_token =
                                            Get(token_response.json, "access_token")],
                               !.calls = Append(@, "github:user")]]
              /\ UNCHANGED issued
    /\ UNCHANGED <<now, ticks>>

\* lines 133-143 (and 149-160 when no email call is needed)
github_user_response(r) ==
    /\ req[r].pc = "gh_user"
    /\ \E user_response \in GitHubUserReplies(req[r].local.github_token) :
         LET rec == [req[r] EXCEPT !.local = [@ EXCEPT !.user_response = user_response],
                                   !.replies = Append(@, user_response.status_code)]
         IN
         IF user_response.status_code # 200
         THEN Finish(r, rec,
                     Raise(HTTPException(400, "Failed to get user info")), None)
         ELSE IF needs_email(user_response.json)
         THEN /\ req' = [req EXCEPT ![r] =
                   [rec EXCEPT !.pc = "gh_emails",
                               !.calls = Append(@, "github:user/emails")]]
              /\ UNCHANGED issued
         ELSE github_finish(r, rec, user_response.json)
    /\ UNCHANGED <<now, ticks>>

\* lines 144-160: the email list has answered
github_email_response(r) ==
    /\ req[r].pc = "gh_emails"
    /\ \E email_response \in GitHubEmailReplies :
         github_finish(r, [req[r] EXCEPT
                              !.local = [@ EXCEPT !.email_response = email_response],
                              !.replies = Append(@, email_response.status_code)],
                       with_primary_email(req[r].local.user_response.json,
                                          email_response))
    /\ UNCHANGED <<now, ticks>>

(***************************************************************************)
(* POST /auth/google                                                       *)
(***************************************************************************)
GOOGLE_JWKS == "google_jwks"

\* Claims of the ID tokens Google may sign: with the email scope only (no
\* name, no picture), and with the profile scope only (no email).
GoogleIdentities ==
    {[sub |-> S("g-1001"), email |-> S("alice@example.com")],
     [sub |-> S("g-1002"), name |-> S("Bob"), picture |-> S("https://lh3.example/bob")],
     [sub |-> S("g-1003"), email |-> None]}

\* merge two dicts with disjoint keys
Merge(a, b) ==
    [k \in DOMAIN a \cup DOMAIN b |-> IF k \in DOMAIN a THEN a[k] ELSE b[k]]

id_token_claims(identity, aud, iss, access_token, exp) ==
    Merge(identity, [aud |-> aud, iss |-> iss, exp |-> I(exp),
                     at_hash |-> calculate_at_hash(access_token)])

\* ID tokens an exchange at time t may return: genuine ones, and ones that
\* fail verification (wrong key, audience, issuer, access-token hash, expiry).
GoogleIdTokens(t) ==
    LET a == S("ya29.tok")
        who == CHOOSE i \in GoogleIdentities : i["sub"] = S("g-1001")
        good(i) == id_token_claims(i, S(GOOGLE_CLIENT_ID), S(GOOGLE_ISSUER), a,
                                   t + ACCESS_TTL)
    IN  {jwt_encode(good(i), GOOGLE_JWKS, "RS256") : i \in GoogleIdentities}
        \cup
        {jwt_encode(good(who), "attacker_key", "RS256"),
         jwt_encode([good(who) EXCEPT !["aud"] = S("another-client")],
                    GOOGLE_JWKS, "RS256"),
         jwt_encode([good(who) EXCEPT !["iss"] = S("https://evil.example")],
                    GOOGLE_JWKS, "RS256"),
         jwt_encode([good(who) EXCEPT !["at_hash"] = calculate_at_hash(S("other.tok"))],
                    GOOGLE_JWKS, "RS256"),
         jwt_encode([good(who) EXCEPT !["exp"] = I(t - 1)], GOOGLE_JWKS, "RS256")}

GoogleTokenReplies(t) ==
    {[status_code |-> 200,
      json |-> [id_token |-> tok, access_token |-> S("ya29.tok")]] :
        tok \in GoogleIdTokens(t)}
    \cup
    {[status_code |-> 200, json |-> [access_token |-> S("ya29.tok")]],
     [status_code |-> 400, json |-> [error |-> S("invalid_grant")]],
     [status_code |-> 401, json |-> [error |-> S("invalid_client")]]}

GoogleJwksReplies ==
    {[status_code |-> 200, json |-> GOOGLE_JWKS],
     [status_code |-> 503, json |-> None]}

verify_google_id_token_Unverified(id_token, jwks_response, access_token, t) ==
    IF jwks_response.status_code # 200
    THEN Raise(HTTPException(500, "Failed to get Google keys"))
    ELSE Return(id_token.claims)

\* verify_google_id_token once the JWKS request has answered
\* a verifier that falls back on keys it already holds when the JWKS fetch fails
verify_google_id_token_CachedKeys(id_token, jwks_response, access_token, t) ==
    LET d == jwt_decode(id_token, GOOGLE_JWKS, {"RS256"},
                        S(GOOGLE_CLIENT_ID), S(GOOGLE_ISSUER), access_token, t)
    IN  IF d.ok THEN d
        ELSE Raise(HTTPException(400, "Invalid ID token: " \o d.exc.msg))

verify_google_id_token(id_token, jwks_response, access_token, t) ==
    IF jwks_response.status_code # 200
    THEN Raise(HTTPException(500, "Failed to get Google keys"))
    ELSE LET d == jwt_decode(id_token, jwks_response.json, {"RS256"},
                             S(GOOGLE_CLIENT_ID), S(GOOGLE_ISSUER), access_token, t)
         IN  IF d.ok THEN d
             ELSE Raise(HTTPException(400, "Invalid ID token: " \o d.exc.msg))

\* the inner try of google_auth (lines 216-223)
verify_guard(res) ==
    IF res.ok THEN res
    ELSE Raise(HTTPException(400, "Failed to verify ID token: " \o ExcStr(res.exc)))

\* s.split("@")[0]
RECURSIVE before_at(_)
before_at(s) ==
    IF s = "" THEN ""
    ELSE IF Head(s) = "@" THEN ""
    ELSE Head(s) \o before_at(Tail(s))

\* lines 226-232: the canonical user_data, or the fault raised on the way
\* a derivation that indexes the email instead of defaulting it
google_user_data_Strict(claims) ==
    IF "sub" \notin DOMAIN claims THEN Raise(KeyError("sub"))
    ELSE IF "email" \notin DOMAIN claims THEN Raise(KeyError("email"))
    ELSE IF ~IsStr(claims["email"])
    THEN Raise(AttributeError("'NoneType' object has no attribute 'split'"))
    ELSE Return([id |-> claims["sub"],
                 login |-> S(before_at(claims["email"].s)),
                 name |-> Get(claims, "name"),
                 email |-> Get(claims, "email"),
                 avatar_url |-> Get(claims, "picture")])

google_user_data(claims) ==
    IF "sub" \notin DOMAIN claims THEN Raise(KeyError("sub"))
    ELSE IF ~IsStr(GetOr(claims, "email", S("")))
    THEN Raise(AttributeError("'NoneType' object has no attribute 'split'"))
    ELSE Return([id |-> claims["sub"],
                 login |-> S(before_at(GetOr(claims, "email", S("")).s)),
                 name |-> Get(claims, "name"),
                 email |-> Get(claims, "email"),
                 avatar_url |-> Get(claims, "picture")])

google_user(user_data) ==
    [id |-> user_data["id"],
     username |-> user_data["login"],
     name |-> Get(user_data, "name"),
     email |-> Get(user_data, "email"),
     avatar |-> Get(user_data, "avatar_url")]

\* the outer try of google_auth (lines 182, 246-250): whatever is raised
\* inside, an HTTPException included, leaves as a 500
google_guard(res) ==
    IF res.ok THEN res
    ELSE Raise(HTTPException(500, "Internal error: " \o ExcStr(res.exc)))

\* the handler up to its first await: the token exchange is sent
google_auth(r) ==
    /\ req[r].op = "idle"
    /\ Room /\ LoginRoom
    /\ \E code_verifier \in {None, S("verifier-1")} :
         req' = [req EXCEPT ![r] =
                   [Start("google", [code |-> S("4/abc"), code_verifier |-> code_verifier])
                      EXCEPT !.pc = "g_token",
                             !.local = [id_token |-> None, access_token |-> None,
                                        user_data |-> None],
                             !.calls = <<"google:token">>,
                             !.trace = <<"ReceivedCode">>]]
    /\ UNCHANGED <<now, ticks, issued>>

\* lines 204-218: the exchange has answered
google_token_response(r) ==
    /\ req[r].pc = "g_token"
    /\ \E token_response \in GoogleTokenReplies(now) :
         LET id_token == Get(token_response.json, "id_token")
             rec == [req[r] EXCEPT !.replies = Append(@, token_response.status_code)]
         IN
         IF token_response.status_code # 200
         THEN Finish(r, [rec EXCEPT !.trace = Append(@, "ExchangeFailed")],
                     google_guard(Raise(HTTPException(400, "Failed to get access token"))),
                     None)
         ELSE IF ~Truthy(id_token)
         THEN Finish(r, [rec EXCEPT !.trace = @ \o <<"ExchangedForTokens",
                                                    "MissingIdToken">>],
                     google_guard(Raise(HTTPException(400, "No ID token received"))),
                     None)
         ELSE /\ req' = [req EXCEPT ![r] =
                   [rec EXCEPT !.pc = "g_jwks",
                             !.local = [@ EXCEPT
                                 !.id_token = id_token,
                                 !.access_token = Get(token_response.json, "access_token")],
                             !.calls = Append(@, "google:certs"),
                             !.trace = Append(@, "ExchangedForTokens")]]
              /\ UNCHANGED issued
    /\ UNCHANGED <<now, ticks>>

\* lines 80-98 and 219-245: the JWKS request has answered
google_jwks_response(r) ==
    /\ req[r].pc = "g_jwks"
    /\ \E jwks_response \in GoogleJwksReplies :
         LET verified == verify_guard(verify_google_id_token(
                             req[r].local.id_token, jwks_response,
                             req[r].local.access_token, now))
             user_data == google_user_data(verified.val)
             tokens == create_tokens(user_data.val, now)
             rec == [req[r] EXCEPT !.replies = Append(@, jwks_response.status_code)]
         IN  IF ~verified.ok
             THEN Finish(r, [rec EXCEPT !.trace = Append(@, "InvalidIdToken")],
                         google_guard(verified), None)
             ELSE IF ~user_data.ok
             THEN Finish(r, [rec EXCEPT !.trace = Append(@, "IdTokenVerified")],
                         google_guard(user_data), None)
             ELSE Finish(r, [rec EXCEPT
                               !.trace = @ \o <<"IdTokenVerified", "ProfileExtracted">>,
                               !.local = [@ EXCEPT !.user_data = user_data.val]],
                         google_guard(Return(
                             [user |-> google_user(user_data.val),
                              access_token |-> tokens.access_token,
                              refresh_token |-> tokens.refresh_token])),
                         user_data.val)
    /\ UNCHANGED <<now, ticks>>

(***************************************************************************)
(* POST /auth/refresh                                                      *)
(***************************************************************************)
refresh_user_data_SubAsLogin(payload) ==
    [id |-> payload["sub"],
     login |-> GetOr(payload, "username", payload["sub"]),
     name |-> GetOr(payload, "name", S("")),
     email |-> Get(payload, "email"),
     avatar_url |-> Get(payload, "avatar")]

\* a handler that takes the id from the username claim
refresh_user_data_LoginAsId(payload) ==
    [id |-> GetOr(payload, "username", S("")),
     login |-> GetOr(payload, "username", S("")),
     name |-> GetOr(payload, "name", S("")),
     email |-> Get(payload, "email"),
     avatar_url |-> Get(payload, "avatar")]

refresh_user_data(payload) ==
    [id |-> payload["sub"],
     login |-> GetOr(payload, "username", S("")),
     name |-> GetOr(payload, "name", S("")),
     email |-> Get(payload, "email"),
     avatar_url |-> Get(payload, "avatar")]

IsRefreshKind_Unchecked(payload) == TRUE

IsRefreshKind(payload) == Get(payload, "type") = S("refresh")

\* a handler that rotates refresh tokens: one that has been exchanged for a
\* new pair is refused from then on
refresh_token_result_OneTime(token, t) ==
    LET d == jwt_decode(token, JWT_SECRET, {"HS256"}, None, None, None, t) IN
    IF ~d.ok
    THEN Raise(HTTPException(401, "Invalid refresh token"))
    ELSE IF ~IsRefreshKind(d.val) \/ (\E h \in issued : h.parent = token)
    THEN Raise(HTTPException(401, "Invalid refresh token"))
    ELSE IF "sub" \notin DOMAIN d.val
    THEN Raise(KeyError("sub"))
    ELSE Return(create_tokens(refresh_user_data(d.val), t))

\* a handler that dates the new pair from the issue of the presented token
refresh_token_result_Anchored(token, t) ==
    LET d == jwt_decode(token, JWT_SECRET, {"HS256"}, None, None, None, t) IN
    IF ~d.ok
    THEN Raise(HTTPException(401, "Invalid refresh token"))
    ELSE IF ~IsRefreshKind(d.val)
    THEN Raise(HTTPException(401, "Invalid refresh token"))
    ELSE IF "sub" \notin DOMAIN d.val
    THEN Raise(KeyError("sub"))
    ELSE Return(create_tokens(refresh_user_data(d.val),
                              d.val["exp"].i - REFRESH_TTL))

\* the handler's outcome: the new pair, or the exception that leaves it
refresh_token_result(token, t) ==
    LET d == jwt_decode(token, JWT_SECRET, {"HS256"}, None, None, None, t) IN
    IF ~d.ok
    THEN Raise(HTTPException(401, "Invalid refresh token"))
    ELSE IF ~IsRefreshKind(d.val)
    THEN Raise(HTTPException(401, "Invalid refresh token"))
    ELSE IF "sub" \notin DOMAIN d.val
    THEN Raise(KeyError("sub"))
    ELSE Return(create_tokens(refresh_user_data(d.val), t))

\* the user_data a successful refresh calls create_tokens with
refresh_token_user_data(token, t) ==
    IF refresh_token_result(token, t).ok
    THEN refresh_user_data(
             jwt_decode(token, JWT_SECRET, {"HS256"}, None, None, None, t).val)
    ELSE None

refresh_token(r) ==
    /\ req[r].op = "idle"
    /\ Room
    /\ \E token \in Presentable :
         LET res == refresh_token_result(token, now) IN
         Finish(r, Start("refresh", token), res, refresh_token_user_data(token, now))
    /\ UNCHANGED <<now, ticks>>

(***************************************************************************)
(* GET /auth/me                                                            *)
(***************************************************************************)
get_current_user(credentials, t) ==
    LET d == jwt_decode(credentials, JWT_SECRET, {"HS256"}, None, None, None, t) IN
    IF d.ok THEN d ELSE Raise(HTTPException(401, "Invalid token"))

get_me_result(current_user) ==
    IF "sub" \notin DOMAIN current_user THEN Raise(KeyError("sub"))
    ELSE IF "username" \notin DOMAIN current_user THEN Raise(KeyError("username"))
    ELSE Return([user |->
           [id |-> current_user["sub"],
            username |-> current_user["username"],
            name |-> GetOr(current_user, "name", current_user["username"]),
            email |-> Get(current_user, "email"),
            avatar |-> Get(current_user, "avatar")]])

get_me(r) ==
    /\ req[r].op = "idle"
    /\ \E token \in Presentable :
         LET u == get_current_user(token, now)
             res == IF u.ok THEN get_me_result(u.val) ELSE u IN
         Finish(r, Start("me", token), res, None)
    /\ UNCHANGED <<now, ticks>>

(***************************************************************************)
(* The response is sent and the request is over.                           *)
(***************************************************************************)
Respond(r) ==
    /\ req[r].pc = "done"
    /\ req' = [req EXCEPT ![r] = Idle]
    /\ UNCHANGED <<now, ticks, issued>>

(***************************************************************************)
(* The clock, in seconds.  It advances by a second or by one of the two    *)
(* lifetimes, so that it lands before, on and just after either expiry.    *)
(***************************************************************************)
TickSteps == {1, ACCESS_TTL, REFRESH_TTL}

\* A response is sent as soon as its handler ends: no time passes in between.
\* The clock is read relative to the first issuance: every use of it (lines
\* 39, 44 and the exp checks of jwt.decode) compares it with a time taken
\* from it earlier, so time that passes before any token exists changes
\* nothing.
Tick ==
    /\ ticks < MaxTicks
    /\ issued # {}
    /\ \A r \in DOMAIN req : req[r].pc # "done"
    /\ \E d \in TickSteps : now' = now + d
    /\ ticks' = ticks + 1
    /\ UNCHANGED <<issued, req>>

\* the steps of request r
Step(r) ==
    \/ github_auth(r)
    \/ github_token_response(r)
    \/ github_user_response(r)
    \/ github_email_response(r)
    \/ google_auth(r)
    \/ google_token_response(r)
    \/ google_jwks_response(r)
    \/ refresh_token(r)
    \/ get_me(r)
    \/ Respond(r)

Next ==
    \/ \E r \in Reqs : Step(r)
    \/ Tick

Spec == Init /\ [][Next]_vars

(***************************************************************************)
(* Two requests handled concurrently: their steps interleave at the        *)
(* awaits.  The clock stands still meanwhile.                              *)
(***************************************************************************)
ConcReqs == {1, 2}

InitConc ==
    /\ now = 0
    /\ ticks = 0
    /\ issued = {}
    /\ req = [r \in ConcReqs |-> Idle]

NextConc == \E r \in ConcReqs : Step(r)

SpecConc == InitConc /\ [][NextConc]_vars

(***************************************************************************)
(* verify_pkce (lines 64-73).  No handler calls it; it is exercised on its *)
(* own, with verifiers drawn from the strings over Alphabet of length at   *)
(* most MaxVerifierLen and from None.                                      *)
(***************************************************************************)
Alphabet == {"a", "b"}

RECURSIVE Strings(_)
Strings(n) ==
    IF n = 0 THEN {""}
    ELSE Strings(n - 1) \cup {s \o c : s \in Strings(n - 1), c \in Alphabet}

\* hashlib.sha256(s.encode()).digest(): a 32-byte digest, one per input
sha256(s) == "sha256(" \o s \o ")"

\* base64.urlsafe_b64encode(digest).decode(): 32 bytes encode to 43
\* characters and one "=" of padding
urlsafe_b64encode(digest) == "b64(" \o digest \o ")" \o "="

\* s.rstrip(ch)
RECURSIVE rstrip(_, _)
rstrip(s, ch) ==
    IF s = "" THEN ""
    ELSE IF SubSeq(s, Len(s), Len(s)) = ch THEN rstrip(SubSeq(s, 1, Len(s) - 1), ch)
    ELSE s

\* lines 70-71
generated_challenge(code_verifier) ==
    rstrip(urlsafe_b64encode(sha256(code_verifier)), "=")

verify_pkce(code_verifier, code_challenge) ==
    IF ~Truthy(code_verifier) \/ ~Truthy(code_challenge) THEN TRUE
    ELSE generated_challenge(code_verifier.s) = code_challenge.s

CodeVerifiers == {None} \cup {S(v) : v \in Strings(MaxVerifierLen)}

\* the challenge of every verifier, the same with its padding left on, the
\* empty string, a string that is no challenge, and None
CodeChallenges ==
    {None, S(""), S("not-a-challenge")}
    \cup {S(generated_challenge(v)) : v \in Strings(MaxVerifierLen)}
    \cup {S(urlsafe_b64encode(sha256(v))) : v \in Strings(MaxVerifierLen)}

\* one call of verify_pkce
pkce_call(r) ==
    /\ req[r].op = "idle"
    /\ \E code_verifier \in CodeVerifiers, code_challenge \in CodeChallenges :
         req' = [req EXCEPT ![r] =
                   [Start("pkce", [code_verifier |-> code_verifier,
                                   code_challenge |-> code_challenge]) EXCEPT
                       !.pc = "done",
                       !.resp = verify_pkce(code_verifier, code_challenge)]]
    /\ UNCHANGED <<now, ticks, issued>>

NextPkce == \E r \in Reqs : pkce_call(r) \/ Respond(r)

SpecPkce == Init /\ [][NextPkce]_vars

(***************************************************************************)
(* Properties.                                                             *)
(***************************************************************************)
Done(r, op) == req[r].pc = "done" /\ req[r].op = op

Unauthorized(detail) == [status |-> 401, body |-> [detail |-> detail]]

AccessOf(g) == g.tokens.access_token
RefreshOf(g) == g.tokens.refresh_token
AccessExp(g) == g.at + ACCESS_TTL
RefreshExp(g) == g.at + REFRESH_TTL

\* user_data has username, display name, email and avatar populated
Populated(user_data) ==
    /\ Truthy(user_data["login"])
    /\ Truthy(Get(user_data, "name"))
    /\ Truthy(Get(user_data, "email"))
    /\ Truthy(Get(user_data, "avatar_url"))

\* C1: a validly signed, unexpired refresh token presented to GET /auth/me
\* is always answered 401 "Invalid token".
C1_RefreshTokenAtMeIs401 ==
    \A r \in DOMAIN req : \A g \in issued :
        (Done(r, "me") /\ req[r].input = RefreshOf(g) /\ now <= RefreshExp(g))
            => req[r].resp = Unauthorized("Invalid token")

\* C2: a validly signed, unexpired access token presented to POST
\* /auth/refresh is always answered 401 "Invalid refresh token", and no pair
\* is issued.
C2_AccessTokenAtRefreshIs401 ==
    \A r \in DOMAIN req : \A g \in issued :
        (Done(r, "refresh") /\ req[r].input = AccessOf(g) /\ now <= AccessExp(g))
            => /\ req[r].resp = Unauthorized("Invalid refresh token")
               /\ req[r].tokens = None

C2_Witness ==
    \E r \in DOMAIN req : \E g \in issued :
        /\ Done(r, "refresh") /\ req[r].input = AccessOf(g) /\ now <= AccessExp(g)
        /\ req[r].resp.status = 401

\* C3: refresh with the refresh token issued for a fully populated identity
\* succeeds, and the new access token has username "" and name "", email
\* and avatar absent, and the original subject.
C3_RefreshDegradesProfile ==
    \A r \in DOMAIN req : \A g \in issued :
        (/\ Done(r, "refresh") /\ req[r].input = RefreshOf(g)
         /\ now <= RefreshExp(g) /\ Populated(g.user_data))
            => /\ req[r].resp.status = 200
               /\ LET c == req[r].resp.body.access_token.claims IN
                    /\ c["username"] = S("")
                    /\ c["name"] = S("")
                    /\ c["email"] = None
                    /\ c["avatar"] = None
                    /\ c["sub"] = str(g.user_data["id"])
                    /\ c["sub"] = AccessOf(g).claims["sub"]

C3_Witness ==
    \E r \in DOMAIN req : \E g \in issued :
        /\ Done(r, "refresh") /\ req[r].input = RefreshOf(g)
        /\ Populated(g.user_data)
        /\ req[r].resp.status = 200

\* C4: every refresh token ever issued carries exactly sub, type = refresh
\* and exp.
C4_RefreshTokenClaims ==
    \A g \in issued :
        /\ DOMAIN RefreshOf(g).claims = {"sub", "type", "exp"}
        /\ RefreshOf(g).claims["type"] = S("refresh")

C4_Witness ==
    /\ \E r \in DOMAIN req : Done(r, "refresh") /\ req[r].resp.status = 200
    /\ \E g \in issued : Populated(g.user_data)

\* C5: before its expiry, the access token issued for an identity verifies,
\* with sub the string form of the identity's id, the identity's username,
\* email and avatar, and exp one hour after issuance; GET /auth/me then
\* answers with those fields.
C5_AccessTokenRoundTrip ==
    \A g \in issued :
        now < AccessExp(g) =>
            /\ LET v == get_current_user(AccessOf(g), now) IN
                 /\ v.ok
                 /\ v.val["sub"] = str(g.user_data["id"])
                 /\ IsStr(v.val["sub"])
                 /\ v.val["username"] = g.user_data["login"]
                 /\ v.val["email"] = Get(g.user_data, "email")
                 /\ v.val["avatar"] = Get(g.user_data, "avatar_url")
                 /\ v.val["exp"] = I(g.at + ACCESS_TTL)
            /\ \A r \in DOMAIN req :
                 (Done(r, "me") /\ req[r].input = AccessOf(g))
                     => /\ req[r].resp.status = 200
                        /\ req[r].resp.body.user.id = str(g.user_data["id"])
                        /\ req[r].resp.body.user.username = g.user_data["login"]
                        /\ req[r].resp.body.user.email = Get(g.user_data, "email")
                        /\ req[r].resp.body.user.avatar = Get(g.user_data, "avatar_url")

\* an access token of a GitHub identity (integer id) is verified a second
\* after it was issued
C5_Witness ==
    \E r \in DOMAIN req : \E g \in issued :
        /\ Done(r, "me") /\ req[r].input = AccessOf(g)
        /\ IsInt(g.user_data["id"])
        /\ g.at < now /\ now < AccessExp(g)
        /\ req[r].resp.status = 200

\* C6: a refresh token has type refresh and expires exactly 7 days after
\* issuance; refresh accepts it before that and answers 401, issuing
\* nothing, after it; GET /auth/me answers 401 for an access token more than
\* one hour after issuance.
C6_Expiry ==
    \A g \in issued :
        /\ RefreshOf(g).claims["type"] = S("refresh")
        /\ RefreshOf(g).claims["exp"] = I(g.at + REFRESH_TTL)
        /\ now < RefreshExp(g) => refresh_token_result(RefreshOf(g), now).ok
        /\ now > RefreshExp(g) =>
               refresh_token_result(RefreshOf(g), now)
                   = Raise(HTTPException(401, "Invalid refresh token"))
        /\ now > AccessExp(g) =>
               get_current_user(AccessOf(g), now)
                   = Raise(HTTPException(401, "Invalid token"))
        /\ \A r \in DOMAIN req :
             /\ (Done(r, "refresh") /\ req[r].input = RefreshOf(g))
                   => /\ now < RefreshExp(g) => req[r].resp.status = 200
                      /\ now > RefreshExp(g) =>
                            /\ req[r].resp = Unauthorized("Invalid refresh token")
                            /\ req[r].tokens = None
             /\ (Done(r, "me") /\ req[r].input = AccessOf(g) /\ now > AccessExp(g))
                   => req[r].resp = Unauthorized("Invalid token")

C6_Witness ==
    \E r \in DOMAIN req : \E g \in issued :
        /\ Done(r, "refresh") /\ req[r].input = RefreshOf(g)
        /\ now > RefreshExp(g)
        /\ req[r].resp.status = 401

Last(seq) == seq[Len(seq)]

GoogleFailStages == {"ExchangeFailed", "MissingIdToken", "InvalidIdToken"}

\* C7: POST /auth/google answers 400 when the exchange is refused, when the
\* exchange returns no ID token and when the ID token does not verify; it
\* answers 500 only for a fault past verification.
C7_GoogleFailuresAre400 ==
    \A r \in DOMAIN req :
        Done(r, "google") =>
            /\ Last(req[r].trace) \in GoogleFailStages => req[r].resp.status = 400
            /\ req[r].resp.status = 500 => Last(req[r].trace) = "IdTokenVerified"

\* the stages a Google request may have passed, in order
GooglePaths ==
    {<<"ReceivedCode">>,
     <<"ReceivedCode", "ExchangeFailed">>,
     <<"ReceivedCode", "ExchangedForTokens">>,
     <<"ReceivedCode", "ExchangedForTokens", "MissingIdToken">>,
     <<"ReceivedCode", "ExchangedForTokens", "InvalidIdToken">>,
     <<"ReceivedCode", "ExchangedForTokens", "IdTokenVerified">>,
     <<"ReceivedCode", "ExchangedForTokens", "IdTokenVerified", "ProfileExtracted">>}

\* an ID token Google signed for this client
Genuine(id_token) ==
    /\ id_token.key = GOOGLE_JWKS
    /\ Get(id_token.claims, "aud") = S(GOOGLE_CLIENT_ID)
    /\ Get(id_token.claims, "iss") = S(GOOGLE_ISSUER)

C8_Stages ==
    \A r \in DOMAIN req :
        req[r].op = "google" =>
            /\ req[r].trace \in GooglePaths
            /\ req[r].tokens # None =>
                  /\ Last(req[r].trace) = "ProfileExtracted"
                  /\ Genuine(req[r].local.id_token)
                  /\ req[r].calls = <<"google:token", "google:certs">>
            /\ Last(req[r].trace) \in GoogleFailStages =>
                  /\ req[r].pc = "done"
                  /\ req[r].tokens = None
                  /\ req[r].resp.status # 200
            /\ Last(req[r].trace) \in {"ExchangeFailed", "MissingIdToken"} =>
                  req[r].calls = <<"google:token">>

C8_Terminal ==
    \A r \in DOMAIN req :
        (req[r].op = "google" /\ Last(req[r].trace) \in GoogleFailStages)
            => /\ req'[r] \in {req[r], Idle}
               /\ \A g \in issued' \ issued : \E q \in DOMAIN req :
                     q # r /\ req'[q].tokens = g.tokens

\* C8: a Google request passes the stages ReceivedCode, ExchangedForTokens,
\* IdTokenVerified, ProfileExtracted in that order; it issues tokens only
\* after a genuine ID token has been verified; once it is in ExchangeFailed,
\* MissingIdToken or InvalidIdToken it makes no further call (no JWKS fetch
\* after MissingIdToken) and issues nothing.
C8_GoogleStateMachine == [](C8_Stages) /\ [][C8_Terminal]_vars

C8_Witness ==
    \E r \in DOMAIN req :
        Done(r, "google") /\ Last(req[r].trace) = "MissingIdToken"

EmailsCalled(r) == \E i \in DOMAIN req[r].calls : req[r].calls[i] = "github:user/emails"

\* C9: GitHub's email list is fetched exactly when the fetched profile has
\* no email; if the list has an entry flagged primary, the summary and the
\* access token carry that entry's email; if it has none, the request still
\* succeeds, with email absent in both.
C9_GithubEmailCompletion ==
    \A r \in DOMAIN req :
        req[r].op = "github" =>
            LET l == req[r].local IN
            /\ EmailsCalled(r) <=>
                  /\ l.user_response # None
                  /\ l.user_response.status_code = 200
                  /\ Get(l.user_response.json, "email") = None
            /\ (req[r].pc = "done" /\ l.email_response # None
                                   /\ l.email_response.status_code = 200) =>
                  LET list == l.email_response.json
                      prim == {i \in DOMAIN list : list[i].primary}
                  IN  /\ req[r].resp.status = 200
                      /\ req[r].resp.body.user.email
                            = req[r].resp.body.access_token.claims["email"]
                      /\ \A i \in prim : req[r].resp.body.user.email = list[i].email
                      /\ prim = {} => req[r].resp.body.user.email = None

C9_Witness ==
    \E r \in DOMAIN req :
        /\ Done(r, "github") /\ EmailsCalled(r)
        /\ req[r].local.email_response.status_code = 200
        /\ \E i \in DOMAIN req[r].local.email_response.json :
              /\ req[r].local.email_response.json[i].primary
              /\ req[r].resp.body.user.email = req[r].local.email_response.json[i].email

AuthFailed(r) ==
    /\ req[r].pc = "done"
    /\ req[r].op \in {"github", "google"}
    /\ req[r].resp.status # 200

\* C10: two failing authenticate requests to the same provider, sent with
\* the same body, get the same response whatever made them fail.
C10_OpaqueFailure ==
    \A r1, r2 \in DOMAIN req :
        (/\ AuthFailed(r1) /\ AuthFailed(r2)
         /\ req[r1].op = req[r2].op
         /\ req[r1].input = req[r2].input)
            => req[r1].resp = req[r2].resp

\* the outbound calls of the two authenticate handlers, in program order
GitHubCalls == <<"github:access_token", "github:user", "github:user/emails">>
GoogleCalls == <<"google:token", "google:certs">>

IsPrefix(p, q) == Len(p) <= Len(q) /\ p = SubSeq(q, 1, Len(p))

Authenticating(r) == req[r].op \in {"github", "google"}

\* the calls of request r are sent in program order, each endpoint at most
\* once, and a call is sent only when every earlier one has been answered
CallsInOrder(r) ==
    LET calls == req[r].calls
        replies == req[r].replies
    IN  /\ Len(calls) >= 1
        /\ IsPrefix(calls, IF req[r].op = "github" THEN GitHubCalls ELSE GoogleCalls)
        /\ Len(replies) <= Len(calls)
        /\ Len(calls) <= Len(replies) + 1
        /\ req[r].pc = "done" => /\ Len(replies) = Len(calls)
                                 /\ Len(calls) <= 3

\* a step sends at most one call and never rewrites the calls already sent
OneCallPerStep ==
    \A r \in DOMAIN req :
        \/ req'[r].calls = req[r].calls
        \/ /\ Len(req'[r].calls) = Len(req[r].calls) + 1
           /\ IsPrefix(req[r].calls, req'[r].calls)
        \/ req'[r].calls = <<>> /\ req[r].pc = "done"

\* C11: no outbound call is retried: an authenticate request calls each
\* provider endpoint at most once, one call after the other, and has made
\* between 1 and 3 calls when it completes.
C11_NoRetry ==
    /\ [](\A r \in DOMAIN req : Authenticating(r) => CallsInOrder(r))
    /\ [][OneCallPerStep]_vars

C11_Witness ==
    \E r \in DOMAIN req :
        /\ Done(r, "github") /\ req[r].calls = GitHubCalls
        /\ req[r].replies = <<200, 200, 200>>
        /\ req[r].resp.status = 200

\* the request ended in failure and returned no session tokens
Failed(r) == req[r].resp.status >= 400 /\ req[r].tokens = None

\* the calls of request r that were answered with a non-success status
FailedCalls(r) ==
    {req[r].calls[i] : i \in {j \in 1..Len(req[r].replies) : req[r].replies[j] # 200}}

H(v) == generated_challenge(v)

\* C13: verify_pkce(v, H(v)) is true for every string v, verify_pkce(v, c)
\* is false for every string v, the empty string included, and every
\* challenge c other than H(v), and verify_pkce is true when the verifier
\* or the challenge is absent.
C13_VerifyPkce ==
    \A r \in DOMAIN req :
        Done(r, "pkce") =>
            LET v == req[r].input.code_verifier
                c == req[r].input.code_challenge
            IN  IF v = None \/ c = None THEN req[r].resp = TRUE
                ELSE req[r].resp = (c.s = H(v.s))

\* The response of a request run alone: the handler's code applied to the
\* request's own input, the replies it received and the clock.
Response(res) == IF res.ok THEN OkResponse(res.val) ELSE ErrorResponse(res.exc)

WithTokens(user, user_data, t) ==
    [user |-> user,
     access_token |-> create_tokens(user_data, t).access_token,
     refresh_token |-> create_tokens(user_data, t).refresh_token]

GitHubAlone(rec, t) ==
    IF rec.replies[1] # 200
    THEN Raise(HTTPException(400, "Failed to get access token"))
    ELSE IF rec.replies[2] # 200
    THEN Raise(HTTPException(400, "Failed to get user info"))
    ELSE LET profile == rec.local.user_response.json
             user_data == IF needs_email(profile)
                          THEN with_primary_email(profile, rec.local.email_response)
                          ELSE profile
         IN  Return(WithTokens(github_user(user_data), user_data, t))

GoogleAlone(rec, t) ==
    IF rec.replies[1] # 200
    THEN google_guard(Raise(HTTPException(400, "Failed to get access token")))
    ELSE IF Len(rec.replies) = 1
    THEN google_guard(Raise(HTTPException(400, "No ID token received")))
    ELSE LET jwks_response == CHOOSE j \in GoogleJwksReplies :
                                  j.status_code = rec.replies[2]
             verified == verify_guard(verify_google_id_token(
                             rec.local.id_token, jwks_response,
                             rec.local.access_token, t))
             user_data == google_user_data(verified.val)
         IN  IF ~verified.ok THEN google_guard(verified)
             ELSE IF ~user_data.ok THEN google_guard(user_data)
             ELSE Return(WithTokens(google_user(user_data.val), user_data.val, t))

MeAlone(rec, t) ==
    LET u == get_current_user(rec.input, t) IN
    IF u.ok THEN get_me_result(u.val) ELSE u

Alone(rec, t) ==
    Response(CASE rec.op = "github" -> GitHubAlone(rec, t)
               [] rec.op = "google" -> GoogleAlone(rec, t)
               [] rec.op = "refresh" -> refresh_token_result(rec.input, t)
               [] rec.op = "me" -> MeAlone(rec, t))

\* a step is a step of one request: it leaves every other request as it was
OneRequestPerStep ==
    \A r, q \in DOMAIN req :
        (r # q /\ req'[r] # req[r]) => req'[q] = req[q]

\* C14: requests are independent: however the steps of concurrently handled
\* authenticate, refresh and whoAmI requests interleave, each request's
\* response is the one it produces alone with the same input, provider
\* replies and clock, and no step of one request changes another request.
C14_Independent ==
    /\ [](\A r \in DOMAIN req : req[r].pc = "done" => req[r].resp = Alone(req[r], now))
    /\ [][OneRequestPerStep]_vars

\* two authentications that overlapped (the second was admitted before the
\* first had issued its tokens) and ended with different identities
C14_Witness ==
    \E r, q \in DOMAIN req :
        /\ r # q
        /\ Done(r, "github") /\ Done(q, "github")
        /\ req[r].resp.status = 200 /\ req[q].resp.status = 200
        /\ req[r].resp.body.user.id # req[q].resp.body.user.id
        /\ req[r].calls = GitHubCalls

\* request r is a finished Google authentication whose ID token verified
GoogleVerified(r) ==
    /\ Done(r, "google")
    /\ \E i \in 1..Len(req[r].trace) : req[r].trace[i] = "IdTokenVerified"

VerifiedClaims(r) == req[r].local.id_token.claims

\* C15 as stated: when the verified Google claims contain no email, the
\* username derivation faults, so the request fails and issues no tokens.
C15_NoEmailIsFault ==
    \A r \in DOMAIN req :
        (GoogleVerified(r) /\ Get(VerifiedClaims(r), "email") = None)
            => Failed(r)

\* C15 amended: when the verified Google claims have no email claim at all,
\* the derivation defaults the email to the empty string, the request
\* succeeds with username "" and issues tokens carrying username ""; only
\* an email claim that is present and null makes the derivation fault, and
\* then the request ends in a 500 with no tokens issued.
C15_NoEmail ==
    \A r \in DOMAIN req :
        (GoogleVerified(r) /\ Get(VerifiedClaims(r), "email") = None)
            => IF "email" \notin DOMAIN VerifiedClaims(r)
               THEN /\ req[r].resp.status = 200
                    /\ req[r].resp.body.user.username = S("")
                    /\ req[r].resp.body.user.email = None
                    /\ req[r].tokens # None
                    /\ req[r].tokens.access_token.claims["username"] = S("")
                    /\ req[r].tokens.access_token.claims["sub"]
                           = VerifiedClaims(r)["sub"]
               ELSE /\ req[r].resp.status = 500
                    /\ req[r].resp.body.detail
                           = "Internal error: 'NoneType' object has no attribute 'split'"
                    /\ req[r].tokens = None

C15_Witness ==
    \E r \in DOMAIN req :
        /\ GoogleVerified(r)
        /\ "email" \notin DOMAIN VerifiedClaims(r)
        /\ req[r].resp.status = 200
        /\ req[r].resp.body.user.username = S("")

\* the identity summary whoAmI returns agrees with the summary g.user that
\* the authenticate call returned
SameSummary(me, user) ==
    /\ me.id = str(user.id)
    /\ me.username = user.username
    /\ me.name = user.name
    /\ me.email = user.email
    /\ me.avatar = user.avatar

\* C16: for every successful authenticate, whoAmI with the returned access
\* token before it expires yields the identity summary that authenticate
\* returned (the id in string form), also for a Google identity without name.
C16_WhoAmIMatchesAuthenticate ==
    \A r \in DOMAIN req : \A g \in issued :
        (/\ Done(r, "me") /\ g.parent = None
         /\ req[r].input = AccessOf(g) /\ now < AccessExp(g))
            => /\ req[r].resp.status = 200
               /\ SameSummary(req[r].resp.body.user, g.user)

\* refresh token tok has been exchanged for a new pair
Used(tok) == \E h \in issued : h.parent = tok

\* C17: refresh does not consume or revoke the refresh token presented to
\* it: a refresh token that has been used is still accepted by refresh at
\* every time before its own expiry, and every pair issued no later than
\* one of its uses has an access token that whoAmI accepts until it expires.
C17_RefreshKeepsTokens ==
    \A g \in issued :
        Used(RefreshOf(g)) =>
            /\ now < RefreshExp(g) =>
                  /\ refresh_token_result(RefreshOf(g), now).ok
                  /\ \A r \in DOMAIN req :
                        (Done(r, "refresh") /\ req[r].input = RefreshOf(g))
                            => /\ req[r].resp.status = 200
                               /\ req[r].tokens # None
            /\ \A e \in issued :
                  (/\ \E h \in issued : h.parent = RefreshOf(g) /\ e.at <= h.at
                   /\ now < AccessExp(e))
                      => /\ get_current_user(AccessOf(e), now).ok
                         /\ \A r \in DOMAIN req :
                               (Done(r, "me") /\ req[r].input = AccessOf(e))
                                   => req[r].resp.status = 200

\* the same refresh token exchanged a second time, later than the first
C17_Witness ==
    \E g, h1, h2 \in issued : \E r \in DOMAIN req :
        /\ h1.parent = RefreshOf(g) /\ h2.parent = RefreshOf(g)
        /\ h1.at < h2.at
        /\ Done(r, "refresh") /\ req[r].input = RefreshOf(g)
        /\ req[r].tokens = h2.tokens
        /\ req[r].resp.status = 200

\* the pairs a refresh chain leads from to pair h in at most n refreshes
RECURSIVE Ancestors(_, _)
Ancestors(h, n) ==
    IF n = 0 THEN {h}
    ELSE LET below == Ancestors(h, n - 1) IN
         below \cup {p \in issued : \E c \in below : c.parent = RefreshOf(p)}

Subject(tok) == tok.claims["sub"]

\* C18: the subject is preserved along every refresh chain: every access
\* token and every refresh token of a chain issue -> refresh -> refresh ...
\* carries the subject string of the pair the chain started from.
C18_SubjectPreserved ==
    \A h \in issued : \A a \in Ancestors(h, Cardinality(issued)) :
        /\ IsStr(Subject(AccessOf(h)))
        /\ Subject(AccessOf(h)) = Subject(AccessOf(a))
        /\ Subject(RefreshOf(h)) = Subject(AccessOf(a))
        /\ Subject(RefreshOf(a)) = Subject(AccessOf(a))
        /\ a.parent = None => Subject(AccessOf(h)) = str(a.user.id)

\* a chain of two refreshes, the second given the token the first returned
C18_Witness ==
    \E g, h1, h2 \in issued :
        /\ g.parent = None
        /\ h1.parent = RefreshOf(g) /\ h2.parent = RefreshOf(h1)
        /\ g.at < h1.at /\ h1.at < h2.at
        /\ IsInt(g.user.id)
        /\ Subject(RefreshOf(h2)) = str(g.user.id)

\* C19: refresh-token expiry slides: the pair a successful refresh returns
\* at time t expires at t + 7 days (access token: t + 1 hour) whatever the
\* expiry of the token presented, and a refresh made within 7 days of the
\* issue of the token presented is never rejected.
C19_SlidingExpiry ==
    \A h \in issued :
        /\ h.parent # None =>
              /\ RefreshOf(h).claims["exp"] = I(h.at + REFRESH_TTL)
              /\ AccessOf(h).claims["exp"] = I(h.at + ACCESS_TTL)
        /\ \A r \in DOMAIN req :
              (/\ Done(r, "refresh") /\ req[r].input = RefreshOf(h)
               /\ now <= h.at + REFRESH_TTL)
                  => /\ req[r].resp.status = 200
                     /\ req[r].tokens = create_tokens(refresh_user_data(
                                            RefreshOf(h).claims), now)

\* a refresh accepted after the first pair of its chain has expired
C19_Witness ==
    \E g, h \in issued : \E r \in DOMAIN req :
        /\ g.parent = None /\ h.parent = RefreshOf(g)
        /\ now > RefreshExp(g)
        /\ Done(r, "refresh") /\ req[r].input = RefreshOf(h)
        /\ req[r].resp.status = 200
        /\ req[r].tokens.refresh_token.claims["exp"] = I(now + REFRESH_TTL)

====
